---- MODULE Spec2Model ----
(***************************************************************************)
(* Amphipod burrow organizer (src/src/bin/day23.rs): positions and paths,  *)
(* amphipods, the Map with its move generator and move application, and    *)
(* the worklist search best_solution_imperative.                           *)
(***************************************************************************)
EXTENDS Integers, Sequences, FiniteSets, TLC

VARIABLES
    self,           \* the Map the caller started from; the receiver of a call
    arg,            \* the argument of the running call
    map,            \* the Map held by the caller of possible_moves / do_move
    moved,          \* the moves applied with do_move so far: <<type, from, to>>
    stack,          \* best_solution_imperative: VecDeque<Map>
    visited,        \* best_solution_imperative: HashSet<Map>, by key
    solutions,      \* best_solution_imperative: HashSet<Map>
    lowest_energy,  \* best_solution_imperative: lowest energy of a solution
    pc,             \* position of the running operation
    result          \* returned Option<Map>

vars == <<self, arg, map, moved, stack, visited, solutions, lowest_energy, pc, result>>

---------------------------------------------------------------------------
(* Bounds of the model *)

\* initial maps draw their types from the first MaxType types
MaxType == 2

\* initial maps place amphipods in the burrows and on Hallway(0..MaxStartHallway)
MaxStartHallway == 3

\* longest sequence of arbitrary do_move applications
MaxMoves == 2

\* accumulated energy up to which the example's move graph is unfolded
MaxEnergy == 12521

---------------------------------------------------------------------------
(* Type *)

TypeA == "Type::A"
TypeB == "Type::B"
TypeC == "Type::C"
TypeD == "Type::D"

Types == <<TypeA, TypeB, TypeC, TypeD>>

dest_burrow(t) ==
    CASE t = TypeA -> 1
      [] t = TypeB -> 2
      [] t = TypeC -> 3
      [] t = TypeD -> 4

\* energy_cost with the cost of type C a factor of ten too low
energy_cost_cheap_c(t) ==
    CASE t = TypeA -> 1
      [] t = TypeB -> 10
      [] t = TypeC -> 10
      [] t = TypeD -> 1000

energy_cost(t) ==
    CASE t = TypeA -> 1
      [] t = TypeB -> 10
      [] t = TypeC -> 100
      [] t = TypeD -> 1000

to_char(t) ==
    CASE t = TypeA -> "A"
      [] t = TypeB -> "B"
      [] t = TypeC -> "C"
      [] t = TypeD -> "D"

HALLWAY_SIZE == 11
BURROW_DEPTH == 2

---------------------------------------------------------------------------
(* Position *)

Hallway(i) == <<"Hallway", i>>
Burrow(i, j) == <<"Burrow", i, j>>
\* Option<T>
None == <<>>
Some(x) == <<x>>
unwrap(o) == o[1]

IsHallway(p) == p[1] = "Hallway"
IsBurrow(p) == p[1] = "Burrow"

\* Position::all(): the hallway cells, then the burrow slots, in order
all ==
    [k \in 1..HALLWAY_SIZE |-> Hallway(k - 1)]
    \o [k \in 1..8 |-> Burrow(((k - 1) \div 2) + 1, ((k - 1) % 2) + 1)]

Positions == {all[k] : k \in 1..Len(all)}

\* hallway_above one cell too far to the left
hallway_above_left(p) ==
    IF IsBurrow(p) THEN Some(Hallway(p[2] * 2 - 1)) ELSE None

hallway_above(p) ==
    IF IsBurrow(p) THEN Some(Hallway(p[2] * 2)) ELSE None

\* path when the walk to the left lists the cells from left to right
RECURSIVE path_left_forward(_, _)
path_left_forward(from, dest) ==
    IF from = dest THEN <<>>
    ELSE IF IsHallway(from) THEN
        IF IsHallway(dest) THEN
            LET i == from[2]
                j == dest[2]
            IN  IF j < i
                THEN [k \in 1..(i - j) |-> Hallway(j + k - 1)]
                ELSE [k \in 1..(j - i) |-> Hallway(i + k)]
        ELSE
            LET positions == path_left_forward(from, unwrap(hallway_above(dest)))
                first == IF dest[3] = 2
                         THEN Append(positions, Burrow(dest[2], 1))
                         ELSE positions
            IN  Append(first, dest)
    ELSE
        IF IsBurrow(dest) THEN
            IF from[2] = dest[2] THEN <<dest>>
            ELSE path_left_forward(from, unwrap(hallway_above(dest)))
                 \o path_left_forward(unwrap(hallway_above(dest)), dest)
        ELSE
            LET first == IF from[3] = 2 THEN <<Burrow(from[2], 1)>> ELSE <<>>
            IN  Append(first, unwrap(hallway_above(from)))
                \o path_left_forward(unwrap(hallway_above(from)), dest)

\* path when the walk to the right does not skip the cell it starts on
RECURSIVE path_right_from_start(_, _)
path_right_from_start(from, dest) ==
    IF from = dest THEN <<>>
    ELSE IF IsHallway(from) THEN
        IF IsHallway(dest) THEN
            LET i == from[2]
                j == dest[2]
            IN  IF j < i
                THEN [k \in 1..(i - j) |-> Hallway(i - k)]
                ELSE [k \in 1..(j - i + 1) |-> Hallway(i + k - 1)]
        ELSE
            LET positions == path_right_from_start(from, unwrap(hallway_above(dest)))
                first == IF dest[3] = 2
                         THEN Append(positions, Burrow(dest[2], 1))
                         ELSE positions
            IN  Append(first, dest)
    ELSE
        IF IsBurrow(dest) THEN
            IF from[2] = dest[2] THEN <<dest>>
            ELSE path_right_from_start(from, unwrap(hallway_above(dest)))
                 \o path_right_from_start(unwrap(hallway_above(dest)), dest)
        ELSE
            LET first == IF from[3] = 2 THEN <<Burrow(from[2], 1)>> ELSE <<>>
            IN  Append(first, unwrap(hallway_above(from)))
                \o path_right_from_start(unwrap(hallway_above(from)), dest)

\* Position::path
RECURSIVE path(_, _)
path(from, dest) ==
    IF from = dest THEN <<>>
    ELSE IF IsHallway(from) THEN
        IF IsHallway(dest) THEN
            LET i == from[2]
                j == dest[2]
            IN  IF j < i
                THEN [k \in 1..(i - j) |-> Hallway(i - k)]
                ELSE [k \in 1..(j - i) |-> Hallway(i + k)]
        ELSE
            LET positions == path(from, unwrap(hallway_above(dest)))
                first == IF dest[3] = 2
                         THEN Append(positions, Burrow(dest[2], 1))
                         ELSE positions
            IN  Append(first, dest)
    ELSE
        IF IsBurrow(dest) THEN
            IF from[2] = dest[2] THEN <<dest>>
            ELSE path(from, unwrap(hallway_above(dest)))
                 \o path(unwrap(hallway_above(dest)), dest)
        ELSE
            LET first == IF from[3] = 2 THEN <<Burrow(from[2], 1)>> ELSE <<>>
            IN  Append(first, unwrap(hallway_above(from)))
                \o path(unwrap(hallway_above(from)), dest)

---------------------------------------------------------------------------
(* Amphipod *)

Amphipod_new(position, type) ==
    [position |-> position, type |-> type, left_home |-> FALSE]

is_home(pod) ==
    IF IsHallway(pod.position) THEN FALSE
    ELSE pod.position[2] = dest_burrow(pod.type)

left_home(pod) == pod.left_home

is_in_burrow(pod, nr) ==
    IF IsHallway(pod.position) THEN FALSE
    ELSE pod.position[2] = nr

is_in_bottom(pod) ==
    IF IsHallway(pod.position) THEN FALSE
    ELSE pod.position[3] = BURROW_DEPTH

\* move_to when no move marks the amphipod as having left home
move_to_never_left(pod, position) ==
    [pod EXCEPT !.position = position]

\* move_to when every move marks the amphipod as having left home
move_to_always_left(pod, position) ==
    [pod EXCEPT !.position = position, !.left_home = TRUE]

move_to(pod, position) ==
    LET at == [pod EXCEPT !.position = position]
    IN  IF ~is_home(at) THEN [at EXCEPT !.left_home = TRUE] ELSE at

---------------------------------------------------------------------------
(* Map *)

NewMap(pods, energy) == [pods |-> pods, energy |-> energy]

\* usize::max_value() on the model's integers
usize_max_value == 2147483647

Panic == "panic"

\* complete when it never recognises a complete Map
complete_never(m) == FALSE

\* complete with any() in the place of all()
complete_any(m) ==
    \E k \in 1..Len(m.pods) : is_home(m.pods[k])

\* Map::complete
complete(m) ==
    \A k \in 1..Len(m.pods) : is_home(m.pods[k])

\* occupied, when it never reports a pod
occupied_never(m, pos) == FALSE

\* Map::occupied
occupied(m, pos) ==
    \E k \in 1..Len(m.pods) : m.pods[k].position = pos

\* Map::free_spaces
free_spaces(m) ==
    SelectSeq(all, LAMBDA p : ~occupied(m, p))

\* skip_pod without the check on a pod that left home and is home again
skip_pod_bottom_only(pod) ==
    is_in_bottom(pod) /\ is_home(pod)

\* possible_moves: a pod that never moves again
skip_pod(pod) ==
    \/ is_in_bottom(pod) /\ is_home(pod)
    \/ left_home(pod) /\ is_home(pod)

\* burrow_allowed without the check for pods of another destination
burrow_allowed_any_content(m, pod, f) ==
    IF ~is_in_burrow(pod, f[2])
    THEN f[2] = dest_burrow(pod.type)
    ELSE FALSE

\* possible_moves: the free burrow slot f may be entered by pod
burrow_allowed(m, pod, f) ==
    IF ~is_in_burrow(pod, f[2])
    THEN /\ f[2] = dest_burrow(pod.type)
         /\ ~\E k \in 1..Len(m.pods) :
                LET op == m.pods[k]
                IN  IF IsBurrow(op.position)
                    THEN op.position[2] = f[2] /\ dest_burrow(op.type) # f[2]
                    ELSE FALSE
    ELSE FALSE

\* hallway_allowed without the check on pods that are in the hallway
hallway_allowed_always(pod, f) == TRUE

\* possible_moves: the free hallway cell f may be entered by pod
hallway_allowed(pod, f) ==
    ~IsHallway(pod.position)

\* path_free when one unoccupied position of the path is enough
path_free_any_cell(m, pod, f) ==
    LET p == path(pod.position, f)
    IN  \E k \in 1..Len(p) : ~occupied(m, p[k])

\* possible_moves: every position of the path to f is unoccupied
path_free(m, pod, f) ==
    LET p == path(pod.position, f)
    IN  \A k \in 1..Len(p) : ~occupied(m, p[k])

\* filter_above when it keeps every move
filter_above_keep_all(mv) == TRUE

\* possible_moves: the closing filter on the collected moves
filter_above(mv) ==
    IF IsHallway(mv[2])
    THEN mv[2][2] # 2 /\ mv[2][2] # 4 /\ mv[2][2] # 6 /\ mv[2][2] # 8
    ELSE TRUE

\* possible_moves: the moves collected for one pod, in free_spaces order
pod_moves(m, pod) ==
    IF skip_pod(pod) THEN <<>>
    ELSE LET ok(f) == /\ IsBurrow(f) => burrow_allowed(m, pod, f)
                      /\ IsHallway(f) => hallway_allowed(pod, f)
                      /\ path_free(m, pod, f)
             dests == SelectSeq(free_spaces(m), ok)
         IN  [k \in 1..Len(dests) |-> <<pod, dests[k]>>]

RECURSIVE collect_moves(_, _)
collect_moves(m, k) ==
    IF k > Len(m.pods) THEN <<>>
    ELSE pod_moves(m, m.pods[k]) \o collect_moves(m, k + 1)

\* Map::possible_moves
possible_moves(m) ==
    SelectSeq(collect_moves(m, 1), filter_above)

\* do_move: index of the first pod at the position, 0 when there is none
find_pod(m, position) ==
    LET at == {k \in 1..Len(m.pods) : m.pods[k].position = position}
    IN  IF at = {} THEN 0
        ELSE CHOOSE k \in at : \A l \in at : k <= l

\* do_move when the energy of a move ignores the distance
do_move_unit_distance(m, mv) ==
    LET pod == mv[1]
        pos == mv[2]
        idx == find_pod(m, pod.position)
    IN  IF idx = 0 THEN Panic
        ELSE [pods |-> [m.pods EXCEPT ![idx] = move_to(@, pos)],
              energy |-> m.energy + energy_cost(pod.type)]

\* do_move when the first pod of the list is moved, whatever its position
do_move_first_pod(m, mv) ==
    LET pod == mv[1]
        pos == mv[2]
        distance == Len(path(pod.position, pos))
    IN  [pods |-> [m.pods EXCEPT ![1] = move_to(@, pos)],
         energy |-> m.energy + distance * energy_cost(pod.type)]

\* Map::do_move
do_move(m, mv) ==
    LET pod == mv[1]
        pos == mv[2]
        distance == Len(path(pod.position, pos))
        idx == find_pod(m, pod.position)
    IN  IF idx = 0 THEN Panic
        ELSE [pods |-> [m.pods EXCEPT ![idx] = move_to(@, pos)],
              energy |-> m.energy + distance * energy_cost(pod.type)]

\* impl Display for Map: the grid before the pods are drawn, row by row,
\* one character per element, each row closed by its newline
blank_grid ==
    [n \in 1..((BURROW_DEPTH + 1) * (HALLWAY_SIZE + 1)) |->
        LET row == (n - 1) \div (HALLWAY_SIZE + 1)
            col == (n - 1) % (HALLWAY_SIZE + 1)
        IN  IF col = HALLWAY_SIZE THEN "\n"
            ELSE IF row = 0 \/ (col \in {2, 4, 6, 8}) THEN "." ELSE " "]

\* impl Display for Map: the element map[row][column] of a position
grid_cell(pos) ==
    IF IsHallway(pos)
    THEN pos[2] + 1
    ELSE pos[3] * (HALLWAY_SIZE + 1) + pos[2] * 2 + 1

\* impl Display for Map: the pods drawn in order, a later pod overwriting
RECURSIVE draw_pods(_, _, _)
draw_pods(grid, pods, k) ==
    IF k > Len(pods) THEN grid
    ELSE draw_pods([grid EXCEPT ![grid_cell(pods[k].position)] =
                                     to_char(pods[k].type)],
                   pods, k + 1)

\* Map::str_rep
str_rep(m) == draw_pods(blank_grid, m.pods, 1)

\* impl PartialEq for Map
map_eq(a, b) ==
    str_rep(a) = str_rep(b) /\ a.energy = b.energy

\* map_hash when the energy is left out of the key
map_hash_placement(m) == <<str_rep(m), 0>>

\* map_hash as a derived Hash would feed it: the pods in their Vec order
map_hash_pod_order(m) ==
    <<[k \in 1..Len(m.pods) |-> <<m.pods[k].position, m.pods[k].type>>],
      m.energy>>

\* impl Hash for Map: what the hasher is fed
map_hash(m) == <<str_rep(m), m.energy>>

\* HashSet<Map>::contains on a set recorded by what Hash and PartialEq read
set_contains(set, m) == map_hash(m) \in set

\* VecDeque<Map>::contains
stack_contains(stk, m) ==
    LET rep == str_rep(m)
    IN  \E k \in 1..Len(stk) :
            stk[k].energy = m.energy /\ str_rep(stk[k]) = rep

\* HashSet<Map>::contains on a set of Maps
maps_contains(set, m) ==
    LET rep == str_rep(m)
    IN  \E s \in set : s.energy = m.energy /\ str_rep(s) = rep

\* maps_insert when the Map is not added
maps_insert_dropped(set, m) == set

\* HashSet<Map>::insert on a set of Maps: an equal element is kept
maps_insert(set, m) ==
    IF maps_contains(set, m) THEN set ELSE set \cup {m}

---------------------------------------------------------------------------
(* Initial maps *)

StartTypes == {Types[k] : k \in 1..MaxType}

\* the amphipods a test or a caller can build: any cell, any flag
StartPositions ==
    {p \in Positions : IsHallway(p) => p[2] <= MaxStartHallway}

StartPods(flags) ==
    [position : StartPositions, type : StartTypes, left_home : flags]

\* one amphipod, or two on different cells
StartMaps(flags) ==
    {NewMap(<<a>>, 0) : a \in StartPods(flags)}
    \cup {NewMap(<<a, b>>, 0) : a, b \in StartPods(flags)}

Distinct(m) ==
    \A k, l \in 1..Len(m.pods) :
        k # l => m.pods[k].position # m.pods[l].position

\* tests::test_solving_double
DoubleMap ==
    NewMap(<<Amphipod_new(Burrow(1, 2), TypeB),
             Amphipod_new(Hallway(3), TypeD)>>, 0)

\* a Map of three amphipods: the two in the hallway block each other's way
\* home, the third can only step out of its burrow
StuckMap ==
    NewMap(<<Amphipod_new(Hallway(3), TypeD),
             Amphipod_new(Hallway(5), TypeA),
             Amphipod_new(Burrow(3, 1), TypeB)>>, 0)

Idle ==
    /\ arg = None
    /\ stack = <<>>
    /\ visited = {}
    /\ solutions = {}
    /\ lowest_energy = usize_max_value
    /\ result = None

---------------------------------------------------------------------------
(* The move graph: possible_moves applied with do_move *)

\* the Maps one move of possible_moves, applied by do_move, leads to
successors(m) ==
    LET moves == possible_moves(m)
    IN  {do_move(m, moves[k]) : k \in 1..Len(moves)}

InitMoves ==
    /\ map \in {m \in StartMaps(BOOLEAN) : Distinct(m)} \cup {DoubleMap}
    /\ self = None
    /\ moved = <<>>
    /\ pc = "moves"
    /\ Idle

ApplyPossibleMove ==
    /\ pc = "moves"
    /\ \E new \in successors(map) : map' = new
    /\ UNCHANGED <<self, arg, moved, stack, visited, solutions, lowest_energy,
                   pc, result>>

NextMoves == ApplyPossibleMove

SpecMoves == InitMoves /\ [][NextMoves]_vars

---------------------------------------------------------------------------
(* Map::best_solution_imperative *)

\* push_moves without the check of the new map's energy against the lowest
RECURSIVE push_moves_any_energy(_, _, _, _, _, _)
push_moves_any_energy(m, moves, stk, vis, sols, lowest) ==
    IF moves = <<>> THEN stk
    ELSE LET new == do_move(m, Head(moves))
             skip == \/ set_contains(vis, new)
                     \/ stack_contains(stk, new)
                     \/ maps_contains(sols, new)
         IN  push_moves_any_energy(m, Tail(moves),
                                   IF skip THEN stk ELSE <<new>> \o stk,
                                   vis, sols, lowest)

\* the closure over the moves of the popped map: each new map is pushed to
\* the front of the stack unless one of the four checks skips it
RECURSIVE push_moves(_, _, _, _, _, _)
push_moves(m, moves, stk, vis, sols, lowest) ==
    IF moves = <<>> THEN stk
    ELSE LET new == do_move(m, Head(moves))
             skip == \/ new.energy > lowest
                     \/ set_contains(vis, new)
                     \/ stack_contains(stk, new)
                     \/ maps_contains(sols, new)
         IN  push_moves(m, Tail(moves),
                        IF skip THEN stk ELSE <<new>> \o stk,
                        vis, sols, lowest)

\* min_by_energy when the comparison is reversed
max_by_energy(sols) ==
    {s \in sols : \A t \in sols : s.energy >= t.energy}

\* solutions.into_iter().min_by(energy): the elements min_by can return
min_by_energy(sols) ==
    {s \in sols : \A t \in sols : s.energy <= t.energy}

Init ==
    /\ self \in {m \in StartMaps({FALSE}) : Distinct(m)}
                 \cup {DoubleMap, StuckMap}
    /\ map = None
    /\ moved = <<>>
    /\ pc = "start"
    /\ Idle

\* lines 419-421
ReturnComplete ==
    /\ pc = "start"
    /\ complete(self)
    /\ result' = Some(self)
    /\ pc' = "done"
    /\ UNCHANGED <<self, arg, map, moved, stack, visited, solutions, lowest_energy>>

\* lines 424-429
ReturnNoMoves ==
    /\ pc = "start"
    /\ ~complete(self)
    /\ possible_moves(self) = <<>>
    /\ result' = None
    /\ pc' = "done"
    /\ UNCHANGED <<self, arg, map, moved, stack, visited, solutions, lowest_energy>>

\* lines 432-444
StartSearch ==
    /\ pc = "start"
    /\ ~complete(self)
    /\ possible_moves(self) # <<>>
    /\ stack' = <<self>>
    /\ pc' = "loop"
    /\ UNCHANGED <<self, arg, map, moved, visited, solutions, lowest_energy, result>>

\* lines 447-523: one iteration of the while loop
LoopIteration ==
    /\ pc = "loop"
    /\ stack # <<>>
    /\ LET popped == Head(stack)
           rest == Tail(stack)
       IN  /\ map' = popped
           /\ IF popped.energy > lowest_energy \/ set_contains(visited, popped)
              THEN /\ stack' = rest
                   /\ UNCHANGED <<visited, solutions, lowest_energy>>
              ELSE LET vis == visited \cup {map_hash(popped)}
                       sols == IF complete(popped)
                               THEN maps_insert(solutions, popped)
                               ELSE solutions
                       lowest == IF complete(popped)
                                    /\ popped.energy < lowest_energy
                                 THEN popped.energy
                                 ELSE lowest_energy
                   IN  /\ visited' = vis
                       /\ solutions' = sols
                       /\ lowest_energy' = lowest
                       /\ stack' = push_moves(popped, possible_moves(popped),
                                              rest, vis, sols, lowest)
    /\ UNCHANGED <<self, arg, moved, pc, result>>

\* lines 525-526
ReturnBest ==
    /\ pc = "loop"
    /\ stack = <<>>
    /\ IF solutions = {} THEN result' = None
       ELSE \E s \in min_by_energy(solutions) : result' = Some(s)
    /\ pc' = "done"
    /\ UNCHANGED <<self, arg, map, moved, stack, visited, solutions, lowest_energy>>

Next ==
    \/ ReturnComplete
    \/ ReturnNoMoves
    \/ StartSearch
    \/ LoopIteration
    \/ ReturnBest

Spec == Init /\ [][Next]_vars

---------------------------------------------------------------------------
(* What a Map can reach through possible_moves and do_move *)

RECURSIVE reach(_, _)
reach(frontier, seen) ==
    IF frontier = {} THEN seen
    ELSE LET new == (UNION {successors(m) : m \in frontier}) \ seen
         IN  reach(new, seen \cup new)

reachable_complete(m) ==
    {r \in reach({m}, {m}) : complete(r)}

---------------------------------------------------------------------------
(* C1: when best_solution_imperative returns a Map, that Map is complete   *)
(* and its energy is the least energy of all complete Maps that the        *)
(* initial Map reaches through moves of possible_moves applied by do_move. *)
C1_ReturnsMinimum ==
    (pc = "done" /\ result # None) =>
        /\ complete(unwrap(result))
        /\ LET goal == reachable_complete(self)
           IN  /\ \E g \in goal : g.energy = unwrap(result).energy
               /\ \A g \in goal : unwrap(result).energy <= g.energy

\* a search that recorded complete Maps of different energies has returned
C1_Witness ==
    /\ pc = "done"
    /\ result # None
    /\ \E s \in solutions : s.energy > unwrap(result).energy
    /\ Cardinality(visited) > 5

---------------------------------------------------------------------------
(* Claims on the move graph (SpecMoves) *)

above_burrow(p) == IsHallway(p) /\ p[2] \in {2, 4, 6, 8}

in_burrow_nr(pod, nr) == IsBurrow(pod.position) /\ pod.position[2] = nr

\* settled as the claims word it: in the bottom slot of the own burrow, or
\* in the own burrow with the has-left-home flag set
settled(pod) ==
    /\ IsBurrow(pod.position)
    /\ pod.position[2] = dest_burrow(pod.type)
    /\ (pod.position[3] = 2 \/ pod.left_home)

(* C4: in every Map reached from an initial Map with pairwise distinct     *)
(* positions through moves of possible_moves applied by do_move, no two    *)
(* occupants share a position.                                             *)
C4_DistinctPositions ==
    Distinct(map)

\* two amphipods sit in the same burrow after a move
C4_Witness ==
    /\ Len(map.pods) = 2
    /\ map.energy > 0
    /\ IsBurrow(map.pods[1].position)
    /\ IsBurrow(map.pods[2].position)
    /\ map.pods[1].position[2] = map.pods[2].position[2]

(* C5: every move of possible_moves into a burrow slot enters the moved    *)
(* occupant's own destination burrow, which at that moment holds no        *)
(* occupant of another destination; after do_move the entered burrow holds *)
(* only occupants whose destination it is.                                 *)
C5_BurrowEntry ==
    LET moves == possible_moves(map)
    IN  \A k \in 1..Len(moves) :
            LET pod == moves[k][1]
                f == moves[k][2]
                after == do_move(map, moves[k])
            IN  IsBurrow(f) =>
                  /\ f[2] = dest_burrow(pod.type)
                  /\ \A j \in 1..Len(map.pods) :
                         in_burrow_nr(map.pods[j], f[2])
                             => dest_burrow(map.pods[j].type) = f[2]
                  /\ \A j \in 1..Len(after.pods) :
                         in_burrow_nr(after.pods[j], f[2])
                             => dest_burrow(after.pods[j].type) = f[2]

\* a move enters a burrow that already holds another occupant
C5_Witness ==
    LET moves == possible_moves(map)
    IN  \E k \in 1..Len(moves) :
            /\ IsBurrow(moves[k][2])
            /\ \E j \in 1..Len(map.pods) :
                   in_burrow_nr(map.pods[j], moves[k][2][2])

(* C7: on every Map on which complete() is true, whatever the flags and    *)
(* depths, possible_moves returns an empty list.                           *)
C7_CompleteHasNoMoves ==
    complete(map) => possible_moves(map) = <<>>

(* C8: no move of possible_moves ends on a hallway cell directly above a   *)
(* burrow (Hallway 2, 4, 6, 8); so once no occupant is on one of those     *)
(* cells, none is on them after any further move.                          *)
C8_NeverStopsAboveBurrow ==
    /\ [](LET moves == possible_moves(map)
           IN  \A k \in 1..Len(moves) : ~above_burrow(moves[k][2]))
    /\ [][(\A k \in 1..Len(map.pods) : ~above_burrow(map.pods[k].position))
            => (\A k \in 1..Len(map'.pods) : ~above_burrow(map'.pods[k].position))]_vars

\* after a move an occupant stands in the hallway, none on a cell above a
\* burrow, and further moves are offered
C8_Witness ==
    /\ map.energy > 0
    /\ \A k \in 1..Len(map.pods) : ~above_burrow(map.pods[k].position)
    /\ \E k \in 1..Len(map.pods) :
           /\ IsHallway(map.pods[k].position)
           /\ map.pods[k].left_home
    /\ possible_moves(map) # <<>>

(* C9: possible_moves returns no move whose occupant is in a hallway cell  *)
(* and whose destination is a hallway cell.                                *)
C9_HallwayOnlyIntoBurrow ==
    LET moves == possible_moves(map)
    IN  \A k \in 1..Len(moves) :
            IsHallway(moves[k][1].position) => IsBurrow(moves[k][2])

\* an occupant in the hallway is offered a move
C9_Witness ==
    LET moves == possible_moves(map)
    IN  \E k \in 1..Len(moves) : IsHallway(moves[k][1].position)

(* C10: possible_moves returns no move for a settled occupant (bottom slot *)
(* of its own burrow, or in its own burrow with has-left-home set), and a  *)
(* settled occupant stays settled at the same position in every later      *)
(* state of a move sequence.                                               *)
C10_SettledStays ==
    /\ [](LET moves == possible_moves(map)
           IN  \A k \in 1..Len(moves) : ~settled(moves[k][1]))
    /\ [][\A k \in 1..Len(map.pods) :
              settled(map.pods[k]) =>
                  /\ map'.pods[k].position = map.pods[k].position
                  /\ settled(map'.pods[k])]_vars

\* after a move an occupant is settled in the top slot of its burrow, and
\* a further move is offered
C10_Witness ==
    /\ map.energy > 0
    /\ \E k \in 1..Len(map.pods) :
           /\ settled(map.pods[k])
           /\ map.pods[k].position[3] = 1
    /\ possible_moves(map) # <<>>

---------------------------------------------------------------------------
(* Arbitrary moves applied with do_move, as the tests do *)

\* tests::test_move_energy_single_a, _single_b, _double_c_d
MoveEnergyMaps(e) ==
    {NewMap(<<Amphipod_new(Burrow(1, 1), TypeA)>>, e),
     NewMap(<<Amphipod_new(Burrow(1, 1), TypeB)>>, e),
     NewMap(<<Amphipod_new(Burrow(1, 1), TypeC),
              Amphipod_new(Burrow(3, 1), TypeD)>>, e)}

InitDoMove ==
    /\ \E e \in {0, 40} : map \in MoveEnergyMaps(e)
    /\ self = map
    /\ moved = <<>>
    /\ pc = "do_move"
    /\ Idle

ApplyAnyMove ==
    /\ pc = "do_move"
    /\ Len(moved) < MaxMoves
    /\ \E k \in 1..Len(map.pods), pos \in Positions :
           /\ map' = do_move(map, <<map.pods[k], pos>>)
           /\ moved' = Append(moved, <<map.pods[k].type, map.pods[k].position, pos>>)
    /\ UNCHANGED <<self, arg, stack, visited, solutions, lowest_energy, pc, result>>

NextDoMove == ApplyAnyMove

SpecDoMove == InitDoMove /\ [][NextDoMove]_vars

RECURSIVE moves_energy(_)
moves_energy(ms) ==
    IF ms = <<>> THEN 0
    ELSE Len(path(Head(ms)[2], Head(ms)[3])) * energy_cost(Head(ms)[1])
         + moves_energy(Tail(ms))

(* C6: over any sequence of do_move applications from a Map with energy    *)
(* e0 the energy never decreases and equals e0 plus the sum over the moves *)
(* of path length times the occupant type's energy_cost; a type-A occupant *)
(* moving one cell adds 1, a type-B occupant moving two cells adds 20.     *)
C6_EnergyIsSumOfMoves ==
    /\ [](map.energy = self.energy + moves_energy(moved))
    /\ [][map'.energy >= map.energy]_vars
    /\ [][moved' = Append(moved, <<TypeA, Burrow(1, 1), Burrow(1, 2)>>)
            => map'.energy = map.energy + 1]_vars
    /\ [][moved' = Append(moved, <<TypeB, Burrow(1, 1), Hallway(3)>>)
            => map'.energy = map.energy + 20]_vars

\* two moves were applied to a Map that started with energy 40, the type-B
\* occupant's first being the two cells from Burrow(1, 1) to Hallway(3)
C6_Witness ==
    /\ self.energy = 40
    /\ Len(moved) = 2
    /\ moved[1] = <<TypeB, Burrow(1, 1), Hallway(3)>>
    /\ map.energy > 60

---------------------------------------------------------------------------
(* C3: for the two-occupant Map with B at Burrow(1,2) and D at Hallway(3), *)
(* energy 0, best_solution_imperative returns a solution of energy 6050    *)
(* with the D occupant at Burrow(4,1) and the B occupant at Burrow(2,1).   *)
C3_DoubleSolution ==
    (pc = "done" /\ self = DoubleMap) =>
        /\ result # None
        /\ unwrap(result).energy = 6050
        /\ unwrap(result).pods[2].position = Burrow(4, 1)
        /\ unwrap(result).pods[1].position = Burrow(2, 1)

\* the search on that Map has returned, after recording several solutions
C3_Witness ==
    /\ pc = "done"
    /\ self = DoubleMap
    /\ result # None
    /\ Cardinality(solutions) > 1

---------------------------------------------------------------------------
(* impl FromStr for Map, and the example diagram *)

\* Result::Ok
Ok(x) == <<x>>

\* lines[1 + bpos].chars().nth(b_nr * 2 + 1).unwrap(); a diagram is the
\* sequence of its lines, a line the sequence of its characters
slot_char(lines, b_nr, bpos) ==
    IF 2 + bpos > Len(lines) THEN Panic
    ELSE IF b_nr * 2 + 2 > Len(lines[2 + bpos]) THEN Panic
    ELSE lines[2 + bpos][b_nr * 2 + 2]

\* the match on the character of a burrow slot
slot_pod(c, b_nr, bpos) ==
    CASE c = "A" -> Amphipod_new(Burrow(b_nr, bpos), TypeA)
      [] c = "B" -> Amphipod_new(Burrow(b_nr, bpos), TypeB)
      [] c = "C" -> Amphipod_new(Burrow(b_nr, bpos), TypeC)
      [] c = "D" -> Amphipod_new(Burrow(b_nr, bpos), TypeD)
      [] OTHER -> Panic

\* from_str reading the slots row by row: the top slots of the four
\* burrows before the bottom slots
from_str_row_by_row(lines) ==
    LET b_nr(n) == ((n - 1) % 4) + 1
        bpos(n) == ((n - 1) \div 4) + 1
        char(n) == slot_char(lines, b_nr(n), bpos(n))
    IN  IF \E n \in 1..8 : char(n) \notin {"A", "B", "C", "D"} THEN Panic
        ELSE Ok(NewMap([n \in 1..8 |-> slot_pod(char(n), b_nr(n), bpos(n))], 0))

\* Map::from_str: burrow by burrow, top slot before bottom slot
from_str(lines) ==
    LET b_nr(n) == ((n - 1) \div 2) + 1
        bpos(n) == ((n - 1) % 2) + 1
        char(n) == slot_char(lines, b_nr(n), bpos(n))
    IN  IF \E n \in 1..8 : char(n) \notin {"A", "B", "C", "D"} THEN Panic
        ELSE Ok(NewMap([n \in 1..8 |-> slot_pod(char(n), b_nr(n), bpos(n))], 0))

\* tests::test_solving_example
ExampleDiagram ==
    <<<<"#", "#", "#", "#", "#", "#", "#", "#", "#", "#", "#", "#", "#">>,
      <<"#", ".", ".", ".", ".", ".", ".", ".", ".", ".", ".", ".", "#">>,
      <<"#", "#", "#", "B", "#", "C", "#", "B", "#", "D", "#", "#", "#">>,
      <<" ", " ", "#", "A", "#", "D", "#", "C", "#", "A", "#">>,
      <<" ", " ", "#", "#", "#", "#", "#", "#", "#", "#", "#">>>>

\* the least energy the pods that are not home still have to spend: each
\* has to walk at least to the top slot of its burrow
remaining_energy(m) ==
    LET left(k) == IF is_home(m.pods[k]) THEN 0
                   ELSE Len(path(m.pods[k].position,
                                 Burrow(dest_burrow(m.pods[k].type), 1)))
                        * energy_cost(m.pods[k].type)
        RECURSIVE sum(_)
        sum(k) == IF k = 0 THEN 0 ELSE left(k) + sum(k - 1)
    IN  sum(Len(m.pods))

InitExample ==
    /\ map = unwrap(from_str(ExampleDiagram))
    /\ self = map
    /\ moved = <<>>
    /\ pc = "example"
    /\ Idle

\* a move of possible_moves, while a complete Map of at most MaxEnergy can
\* still follow
ApplyExampleMove ==
    /\ pc = "example"
    /\ \E new \in successors(map) :
           /\ new.energy + remaining_energy(new) <= MaxEnergy
           /\ map' = new
    /\ UNCHANGED <<self, arg, moved, stack, visited, solutions, lowest_energy,
                   pc, result>>

NextExample == ApplyExampleMove

SpecExample == InitExample /\ [][NextExample]_vars

\* no move lowers energy plus remaining_energy: a Map left out by
\* ApplyExampleMove for exceeding MaxEnergy leads to no complete Map within
\* MaxEnergy (holds under SpecMoves and SpecExample)
RemainingEnergyIsLowerBound ==
    /\ complete(map) => remaining_energy(map) = 0
    /\ \A new \in successors(map) :
           new.energy + remaining_energy(new)
               >= map.energy + remaining_energy(map)

---------------------------------------------------------------------------
(* Position::path called on a pair of positions, as tests::test_path does *)

\* no search is running
NoSearch ==
    /\ stack = <<>>
    /\ visited = {}
    /\ solutions = {}
    /\ lowest_energy = usize_max_value

InitPath ==
    /\ self \in Positions
    /\ arg \in Positions
    /\ map = None
    /\ moved = <<>>
    /\ pc = "path"
    /\ result = None
    /\ NoSearch

\* self.path(dest) returns
CallPath ==
    /\ pc = "path"
    /\ result' = path(self, arg)
    /\ pc' = "done"
    /\ UNCHANGED <<self, arg, map, moved, stack, visited, solutions,
                   lowest_energy>>

NextPath == CallPath

SpecPath == InitPath /\ [][NextPath]_vars

\* the burrow graph: neighbouring hallway cells, the top slot of burrow n
\* and Hallway(2n), the two slots of a burrow
adjacent(p, q) ==
    \/ /\ IsHallway(p) /\ IsHallway(q)
       /\ (p[2] = q[2] + 1 \/ q[2] = p[2] + 1)
    \/ /\ IsBurrow(p) /\ IsHallway(q)
       /\ p[3] = 1 /\ q[2] = 2 * p[2]
    \/ /\ IsHallway(p) /\ IsBurrow(q)
       /\ q[3] = 1 /\ p[2] = 2 * q[2]
    \/ /\ IsBurrow(p) /\ IsBurrow(q)
       /\ p[2] = q[2]
       /\ (p[3] = q[3] + 1 \/ q[3] = p[3] + 1)

\* breadth-first search in the burrow graph: the number of steps after
\* which b is first met, starting from the cells at n steps
RECURSIVE steps_to(_, _, _, _)
steps_to(b, frontier, seen, n) ==
    IF b \in frontier THEN n
    ELSE LET next == {q \in Positions \ seen :
                          \E p \in frontier : adjacent(p, q)}
         IN  steps_to(b, next, seen \cup next, n + 1)

shortest_distance(a, b) == steps_to(b, {a}, {a}, 0)

cells(p) == {p[k] : k \in 1..Len(p)}

reversed(p) == [k \in 1..Len(p) |-> p[Len(p) + 1 - k]]

(* C11: for every pair of positions (a, b) of Position::all(), the length  *)
(* of a.path(b) is the shortest-path distance between a and b in the       *)
(* burrow graph.                                                           *)
C11_PathLengthIsShortest ==
    pc = "done" => Len(result) = shortest_distance(self, arg)

\* the path between the bottom slots of the outer burrows was computed
C11_Witness ==
    /\ pc = "done"
    /\ self = Burrow(1, 2)
    /\ arg = Burrow(4, 2)
    /\ Len(result) = 10

(* C12: for every pair of positions (a, b), a.path(b) and b.path(a) have   *)
(* the same length, the cells of a.path(b) together with a are the cells   *)
(* of b.path(a) together with b, and b.path(a) visits the cells the two    *)
(* paths share in the reverse order.                                       *)
C12_PathSymmetric ==
    pc = "done" =>
        LET back == path(arg, self)
            shared == cells(result) \cap cells(back)
        IN  /\ Len(result) = Len(back)
            /\ cells(result) \cup {self} = cells(back) \cup {arg}
            /\ SelectSeq(back, LAMBDA c : c \in shared)
                   = reversed(SelectSeq(result, LAMBDA c : c \in shared))

\* a path from a burrow slot leftwards to a hallway cell was computed, the
\* two directions sharing several cells
C12_Witness ==
    /\ pc = "done"
    /\ self = Burrow(3, 2)
    /\ arg = Hallway(1)
    /\ Cardinality(cells(result) \cap cells(path(arg, self))) >= 5

(* C20: for every pair of positions (a, b), a.path(b) returns (the panic   *)
(* is not reached); the path is empty exactly when a = b; otherwise it     *)
(* excludes a, ends with b, repeats no cell, holds only positions of       *)
(* Position::all(), and each cell is adjacent in the burrow graph to the   *)
(* one before it (the first to a); between two hallway cells it walks the  *)
(* cells between a and b in the direction of b.                            *)
C20_PathShape ==
    /\ pc = "path" => ENABLED CallPath
    /\ pc = "done" =>
        /\ (result = <<>>) <=> (self = arg)
        /\ self # arg =>
            /\ self \notin cells(result)
            /\ result[Len(result)] = arg
            /\ Cardinality(cells(result)) = Len(result)
            /\ cells(result) \subseteq Positions
            /\ \A k \in 1..Len(result) :
                   adjacent(IF k = 1 THEN self ELSE result[k - 1], result[k])
        /\ (IsHallway(self) /\ IsHallway(arg)) =>
            \A k \in 1..Len(result) :
                result[k] = Hallway(IF arg[2] < self[2]
                                    THEN self[2] - k ELSE self[2] + k)

\* a path between two hallway cells, walking to the left, was computed
C20_Witness ==
    /\ pc = "done"
    /\ self = Hallway(9)
    /\ arg = Hallway(3)
    /\ Len(result) = 6

---------------------------------------------------------------------------
(* impl PartialEq / Hash for Map: two Maps compared and put in one HashSet, *)
(* as tests::test_map_equality and the visited set do                      *)

\* the pods of m in every internal order
reordered(m) ==
    {[k \in 1..Len(m.pods) |-> m.pods[perm[k]]] :
         perm \in Permutations(1..Len(m.pods))}

\* the same pods with every choice of left_home flags
reflagged(pods) ==
    {[k \in 1..Len(pods) |-> [pods[k] EXCEPT !.left_home = fl[k]]] :
         fl \in [1..Len(pods) -> BOOLEAN]}

\* the Maps m is compared with: its pods in any order under any flags, and
\* its pods with the first one turned into another type, at the energy of
\* m or one above
OtherMaps(m) ==
    LET retyped == {[m.pods EXCEPT ![1].type = t] : t \in StartTypes}
        pods == UNION {reflagged(ps) : ps \in reordered(m)} \cup retyped
    IN  {NewMap(ps, e) : ps \in pods, e \in {m.energy, m.energy + 1}}

InitEq ==
    /\ self \in {m \in StartMaps(BOOLEAN) : Distinct(m)}
    /\ arg \in OtherMaps(self)
    /\ map = None
    /\ moved = <<>>
    /\ pc = "eq"
    /\ result = None
    /\ NoSearch

\* visited.insert(self), then self == other and visited.contains(&other)
CallEq ==
    /\ pc = "eq"
    /\ visited' = visited \cup {map_hash(self)}
    /\ result' = <<map_eq(self, arg), set_contains(visited', arg)>>
    /\ pc' = "done"
    /\ UNCHANGED <<self, arg, map, moved, stack, solutions, lowest_energy>>

NextEq == CallEq

SpecEq == InitEq /\ [][NextEq]_vars

\* a and b hold the same occupants: as many, and each position and type of
\* one is a position and type of the other
same_occupants(a, b) ==
    /\ Len(a.pods) = Len(b.pods)
    /\ \A k \in 1..Len(a.pods) : \E l \in 1..Len(b.pods) :
           /\ a.pods[k].position = b.pods[l].position
           /\ a.pods[k].type = b.pods[l].type
    /\ \A l \in 1..Len(b.pods) : \E k \in 1..Len(a.pods) :
           /\ a.pods[k].position = b.pods[l].position
           /\ a.pods[k].type = b.pods[l].type

(* C13: two Maps holding the same occupants (same position and type for    *)
(* each) in a different internal order and with the same energy compare    *)
(* equal and feed the hasher the same, so a visited set holding one        *)
(* contains the other.                                                     *)
C13_OrderIndependentKey ==
    (pc = "done" /\ same_occupants(self, arg) /\ self.energy = arg.energy) =>
        /\ result[1]
        /\ map_hash(self) = map_hash(arg)
        /\ result[2]
        /\ visited \cup {map_hash(arg)} = visited

\* two Maps with the same two occupants in swapped order and with different
\* flags were compared
C13_Witness ==
    /\ pc = "done"
    /\ Len(self.pods) = 2
    /\ arg.pods[1].position = self.pods[2].position
    /\ arg.pods[1].type = self.pods[2].type
    /\ arg.pods[1].left_home # self.pods[2].left_home
    /\ same_occupants(self, arg)
    /\ self.energy = arg.energy
    /\ result[1]

---------------------------------------------------------------------------
(* Map::complete called on a Map, as tests::test_map_complete does *)

\* tests::test_map_complete: the Map that is not complete
ScrambledMap ==
    NewMap(<<Amphipod_new(Burrow(1, 1), TypeB),
             Amphipod_new(Burrow(1, 2), TypeC),
             Amphipod_new(Burrow(2, 1), TypeD),
             Amphipod_new(Burrow(2, 2), TypeA),
             Amphipod_new(Burrow(3, 1), TypeB),
             Amphipod_new(Burrow(3, 2), TypeA),
             Amphipod_new(Burrow(4, 1), TypeC),
             Amphipod_new(Burrow(4, 2), TypeD)>>, 0)

\* tests::test_map_complete: the Map that is complete
SortedMap ==
    NewMap(<<Amphipod_new(Burrow(1, 1), TypeA),
             Amphipod_new(Burrow(1, 2), TypeA),
             Amphipod_new(Burrow(2, 1), TypeB),
             Amphipod_new(Burrow(2, 2), TypeB),
             Amphipod_new(Burrow(3, 1), TypeC),
             Amphipod_new(Burrow(3, 2), TypeC),
             Amphipod_new(Burrow(4, 1), TypeD),
             Amphipod_new(Burrow(4, 2), TypeD)>>, 0)

\* an amphipod of any type on any cell, with either flag
AnyPods ==
    [position : Positions, type : {Types[k] : k \in 1..Len(Types)},
     left_home : BOOLEAN]

\* one amphipod, or two on different cells, and the two Maps of the test
CompleteMaps ==
    {NewMap(<<a>>, 0) : a \in AnyPods}
    \cup {m \in {NewMap(<<a, b>>, 0) : a, b \in AnyPods} : Distinct(m)}
    \cup {ScrambledMap, SortedMap}

InitComplete ==
    /\ self \in CompleteMaps
    /\ arg = None
    /\ map = None
    /\ moved = <<>>
    /\ pc = "complete"
    /\ result = None
    /\ NoSearch

\* self.complete() returns
CallComplete ==
    /\ pc = "complete"
    /\ result' = complete(self)
    /\ pc' = "done"
    /\ UNCHANGED <<self, arg, map, moved, stack, visited, solutions,
                   lowest_energy>>

NextComplete == CallComplete

SpecComplete == InitComplete /\ [][NextComplete]_vars

\* the burrow numbered by a type: A 1, B 2, C 3, D 4
burrow_numbered_by(t) ==
    CHOOSE n \in 1..4 : <<"Type::A", "Type::B", "Type::C", "Type::D">>[n] = t

(* C14: Map::complete() is true exactly when every occupant is in a slot,  *)
(* at any depth, of the burrow numbered by its type (A 1, B 2, C 3, D 4);  *)
(* an occupant in the hallway or in another type's burrow makes it false.  *)
C14_CompleteIffAllInOwnBurrow ==
    pc = "done" =>
        (result <=>
            \A k \in 1..Len(self.pods) :
                /\ self.pods[k].position[1] = "Burrow"
                /\ self.pods[k].position[2]
                       = burrow_numbered_by(self.pods[k].type)
                /\ self.pods[k].position[3] \in {1, 2})

\* complete() returned true for a Map with an occupant in the top slot of
\* burrow 4 and one in the bottom slot of burrow 3
C14_Witness ==
    /\ pc = "done"
    /\ result = TRUE
    /\ Len(self.pods) = 2
    /\ self.pods[1].position = Burrow(4, 1)
    /\ self.pods[2].position = Burrow(3, 2)

---------------------------------------------------------------------------
(* Map::from_str called on a diagram, as tests::test_read_map and main do *)

\* Result::Err of impl FromStr for Map (type Err = String)
Err(e) == <<"Err", e>>

\* main: the puzzle input
MainDiagram ==
    <<<<"#", "#", "#", "#", "#", "#", "#", "#", "#", "#", "#", "#", "#">>,
      <<"#", ".", ".", ".", ".", ".", ".", ".", ".", ".", ".", ".", "#">>,
      <<"#", "#", "#", "B", "#", "C", "#", "A", "#", "D", "#", "#", "#">>,
      <<" ", " ", "#", "B", "#", "C", "#", "D", "#", "A", "#">>,
      <<" ", " ", "#", "#", "#", "#", "#", "#", "#", "#", "#">>>>

\* the diagram with the letters top in the top slots and bottom in the
\* bottom slots of burrows 1 to 4
Diagram(top, bottom) ==
    <<ExampleDiagram[1],
      ExampleDiagram[2],
      <<"#", "#", "#", top[1], "#", top[2], "#", top[3], "#", top[4],
        "#", "#", "#">>,
      <<" ", " ", "#", bottom[1], "#", bottom[2], "#", bottom[3], "#",
        bottom[4], "#">>,
      ExampleDiagram[5]>>

Letters == {"A", "B", "C", "D"}

\* every diagram with a letter in each burrow slot, also without its last
\* line
LetterDiagrams ==
    {Diagram(top, bottom) : top, bottom \in [1..4 -> Letters]}
    \cup {SubSeq(ExampleDiagram, 1, 4), SubSeq(MainDiagram, 1, 4)}

\* diagrams cut or overwritten: one slot character of d replaced, only the
\* first lines of d, or one slot line of d cut after its first columns
DamagedDiagrams(d) ==
    {[d EXCEPT ![row][col] = c] :
         row \in {3, 4}, col \in {4, 6, 8, 10},
         c \in {".", "#", " ", "a", "E"}}
    \cup {SubSeq(d, 1, n) : n \in 0..3}
    \cup {[d EXCEPT ![row] = SubSeq(d[row], 1, w)] :
              row \in {3, 4}, w \in 0..9}

Diagrams ==
    LetterDiagrams
    \cup DamagedDiagrams(ExampleDiagram)
    \cup DamagedDiagrams(MainDiagram)

\* from_str reaches one of its panics: the index lines[1 + bpos], the
\* unwrap of chars().nth(..), or the last arm of the match
from_str_panics(lines) ==
    \E b_nr \in 1..4, bpos \in 1..BURROW_DEPTH :
        slot_char(lines, b_nr, bpos) \notin Letters

InitFromStr ==
    /\ arg \in Diagrams
    /\ self = None
    /\ map = None
    /\ moved = <<>>
    /\ pc = "from_str"
    /\ result = None
    /\ NoSearch

\* Map::from_str(s) returns its Result
FromStrReturns ==
    /\ pc = "from_str"
    /\ ~from_str_panics(arg)
    /\ result' = from_str(arg)
    /\ pc' = "done"
    /\ UNCHANGED <<self, arg, map, moved, stack, visited, solutions,
                   lowest_energy>>

\* Map::from_str(s) panics: nothing is returned
FromStrPanics ==
    /\ pc = "from_str"
    /\ from_str_panics(arg)
    /\ pc' = "panic"
    /\ UNCHANGED <<self, arg, map, moved, stack, visited, solutions,
                   lowest_energy, result>>

NextFromStr == FromStrReturns \/ FromStrPanics

SpecFromStr == InitFromStr /\ [][NextFromStr]_vars

\* the diagram has the lines and columns the burrow slots are read from
\* (columns and lines counted from 0: column 2b+1 of line 1+d)
has_slots(lines) ==
    /\ Len(lines) >= 4
    /\ Len(lines[3]) >= 10
    /\ Len(lines[4]) >= 10

slot_letter(lines, b, dd) == lines[1 + dd + 1][2 * b + 1 + 1]

well_formed(lines) ==
    /\ has_slots(lines)
    /\ \A b \in 1..4, dd \in 1..2 : slot_letter(lines, b, dd) \in Letters

type_named(c) ==
    CASE c = "A" -> "Type::A"
      [] c = "B" -> "Type::B"
      [] c = "C" -> "Type::C"
      [] c = "D" -> "Type::D"

(* C15: Map::from_str on a well-formed diagram produces a Map with energy  *)
(* 0 and exactly 8 occupants, none marked as having left home, where for   *)
(* each burrow b in 1..4 and depth d in 1..2 the occupant at index         *)
(* 2(b-1)+(d-1) is at Burrow(b,d) and has the type named by the character  *)
(* in column 2b+1 of diagram line 1+d.                                     *)
C15_FromStrReadsSlots ==
    well_formed(arg) =>
        /\ pc # "panic"
        /\ pc = "done" =>
            /\ Len(result) = 1
            /\ LET m == result[1]
               IN  /\ m.energy = 0
                   /\ Len(m.pods) = 8
                   /\ \A k \in 1..8 : ~m.pods[k].left_home
                   /\ \A b \in 1..4, dd \in 1..2 :
                          LET o == m.pods[2 * (b - 1) + (dd - 1) + 1]
                          IN  /\ o.position = <<"Burrow", b, dd>>
                              /\ o.type = type_named(slot_letter(arg, b, dd))

\* a diagram whose burrows hold different letters in their two slots was
\* parsed
C15_Witness ==
    /\ pc = "done"
    /\ arg = Diagram(<<"D", "A", "C", "B">>, <<"B", "B", "A", "D">>)
    /\ result[1].pods[2].type = TypeB
    /\ result[1].pods[7].type = TypeB

\* what a caller receives as a parse error: Err of from_str's Result
is_parse_error(r) == Len(r) = 2 /\ r[1] = "Err"

(* C18: Map::from_str on a malformed diagram (a burrow-slot character      *)
(* other than A, B, C or D, or fewer lines or columns than the burrow      *)
(* slots require) fails fast with a parse error that is surfaced to the    *)
(* caller, and produces no Map.                                            *)
C18_MalformedIsParseError ==
    (~well_formed(arg) /\ pc # "from_str") =>
        (pc = "done" /\ is_parse_error(result))

---------------------------------------------------------------------------
(* Map::do_move called with any move request: any amphipod value, any    *)
(* destination                                                           *)

\* type Move = (Amphipod, Position), the amphipod as Amphipod::new builds it
MoveRequests ==
    {<<pod, pos>> : pod \in {a \in AnyPods : ~a.left_home}, pos \in Positions}

InitRequest ==
    /\ self \in MoveEnergyMaps(0) \cup {DoubleMap}
    /\ arg \in MoveRequests
    /\ map = None
    /\ moved = <<>>
    /\ pc = "do_move"
    /\ result = None
    /\ NoSearch

\* self.do_move(&m) returns the new Map
DoMoveReturns ==
    /\ pc = "do_move"
    /\ find_pod(self, arg[1].position) # 0
    /\ result' = Some(do_move(self, arg))
    /\ pc' = "done"
    /\ UNCHANGED <<self, arg, map, moved, stack, visited, solutions,
                   lowest_energy>>

\* self.do_move(&m) panics on the unwrap of find: nothing is returned
DoMovePanics ==
    /\ pc = "do_move"
    /\ find_pod(self, arg[1].position) = 0
    /\ pc' = "panic"
    /\ UNCHANGED <<self, arg, map, moved, stack, visited, solutions,
                   lowest_energy, result>>

NextRequest == DoMoveReturns \/ DoMovePanics

SpecRequest == InitRequest /\ [][NextRequest]_vars

\* the destination of the move is the position of an occupant that is not
\* at the move's source position
destination_taken(m, mv) ==
    \E k \in 1..Len(m.pods) :
        /\ m.pods[k].position = mv[2]
        /\ m.pods[k].position # mv[1].position

\* no occupant of the Map is at the move's source position
source_empty(m, mv) ==
    \A k \in 1..Len(m.pods) : m.pods[k].position # mv[1].position

(* C17: a move request that is invalid (its destination is already         *)
(* occupied by another occupant, or no occupant of the Map is at the       *)
(* move's source position) is fatal in do_move: it aborts and never yields *)
(* a new Map.                                                              *)
C17_InvalidMoveIsFatal ==
    (pc # "do_move" /\ (destination_taken(self, arg) \/ source_empty(self, arg)))
        => (pc = "panic" /\ result = None)

---------------------------------------------------------------------------
(* C19: for every Map with distinct positions, possible_moves returns      *)
(* exactly the pairs (occupant o, free position f) such that o is not      *)
(* settled, every cell of o.position.path(f) is unoccupied, a burrow slot  *)
(* f is in o's destination burrow, which o is not in and which holds no    *)
(* foreign occupant, and a hallway cell f is not Hallway 2, 4, 6 or 8 and  *)
(* o is in a burrow: no such pair is missing, no other pair is returned    *)
(* (4 moves for B at Burrow(1,2) with D at Hallway(3)).                    *)
C19_PossibleMovesExact ==
    LET moves == possible_moves(map)
        returned == {moves[k] : k \in 1..Len(moves)}
        pods == {map.pods[k] : k \in 1..Len(map.pods)}
        free(f) == \A o \in pods : o.position # f
        own(o) == burrow_numbered_by(o.type)
        allowed(o, f) ==
            /\ free(f)
            /\ ~settled(o)
            /\ \A c \in cells(path(o.position, f)) : free(c)
            /\ f[1] = "Burrow" =>
                  /\ f[2] = own(o)
                  /\ ~in_burrow_nr(o, f[2])
                  /\ \A q \in pods : in_burrow_nr(q, f[2]) => own(q) = f[2]
            /\ f[1] = "Hallway" =>
                  /\ o.position[1] = "Burrow"
                  /\ f[2] \notin {2, 4, 6, 8}
    IN  /\ returned = {mv \in pods \X Positions : allowed(mv[1], mv[2])}
        /\ map = DoubleMap => Len(moves) = 4

\* after a first move the occupant in the hallway has gone to the bottom
\* of its burrow, and the occupant left in a foreign burrow is offered the
\* seven hallway cells and the two slots of its own burrow
C19_Witness ==
    /\ map.energy = 7000
    /\ Len(map.pods) = 2
    /\ map.pods[1].position = Burrow(1, 2)
    /\ map.pods[1].type = TypeB
    /\ map.pods[2].position = Burrow(4, 2)
    /\ map.pods[2].type = TypeD
    /\ Len(possible_moves(map)) = 9

---------------------------------------------------------------------------
\* a complete Map is among the Maps of the frontier or among those that
\* moves of possible_moves lead to from there
RECURSIVE complete_reachable(_, _)
complete_reachable(frontier, seen) ==
    IF \E m \in frontier : complete(m) THEN TRUE
    ELSE IF frontier = {} THEN FALSE
    ELSE LET new == (UNION {successors(m) : m \in frontier}) \ seen
         IN  complete_reachable(new, seen \cup new)

(* C16: best_solution_imperative returns None exactly when no complete     *)
(* state is reachable from the initial Map through moves of                *)
(* possible_moves; the outcome is a returned value: the call ends in its   *)
(* return, with the Option as its result.                                  *)
C16_NoneIffNoCompleteReachable ==
    pc = "done" =>
        (result = None <=> ~complete_reachable({self}, {self}))

\* the search emptied its stack without recording a solution and returned
\* None
C16_Witness ==
    /\ pc = "done"
    /\ result = None
    /\ visited # {}
    /\ stack = <<>>
    /\ solutions = {}

---------------------------------------------------------------------------
(* The steps of the loop of best_solution_imperative *)

\* the step pops a Map
Pops == pc = "loop" /\ stack # <<>> /\ pc' = "loop"

\* the step pops a Map and expands it: the Map passes the two checks of
\* lines 451-459 and enters the visited set
Expands == Pops /\ visited' # visited

\* the Maps the step pushed to the front of the stack
pushed == SubSeq(stack', 1, Len(stack') - Len(stack) + 1)

\* the energy is greater than the lowest energy of the recorded solutions
exceeds(e, sols) == \E s \in sols : e > s.energy

\* every occupant is in a slot of the burrow numbered by its type
all_in_own_burrow(m) ==
    \A k \in 1..Len(m.pods) :
        /\ m.pods[k].position[1] = "Burrow"
        /\ m.pods[k].position[2] = burrow_numbered_by(m.pods[k].type)

(* C21: a Map popped from the frontier that is complete is recorded as a   *)
(* candidate solution and is not expanded: none of its successors is       *)
(* computed or pushed to the frontier.                                     *)
C21_CompleteNotExpanded ==
    [][(Expands /\ all_in_own_burrow(Head(stack))) =>
          /\ maps_contains(solutions', Head(stack))
          /\ possible_moves(Head(stack)) = <<>>
          /\ stack' = Tail(stack)]_vars

(* C22: every Map taken from the frontier for expansion has the lowest     *)
(* accumulated energy of all Maps in the frontier at that moment.          *)
C22_LowestEnergyFirst ==
    [][Expands =>
          \A k \in 1..Len(stack) : Head(stack).energy <= stack[k].energy]_vars

(* C23: no successor is pushed to the frontier and no popped Map is        *)
(* expanded when its accumulated energy is greater than the lowest energy  *)
(* of the complete Maps recorded so far; a Map whose energy equals that    *)
(* bound is still kept: popped, it is expanded unless visited, and as a    *)
(* successor it is in the frontier, the visited set or the solutions.      *)
C23_PrunedAboveBestKnown ==
    [][Pops =>
          LET popped == Head(stack)
          IN  /\ exceeds(popped.energy, solutions) =>
                    /\ visited' = visited
                    /\ solutions' = solutions
                    /\ stack' = Tail(stack)
              /\ \A k \in 1..Len(pushed) :
                     ~exceeds(pushed[k].energy, solutions')
              /\ (~exceeds(popped.energy, solutions)
                  /\ <<str_rep(popped), popped.energy>> \notin visited)
                     => Expands
              /\ Expands =>
                     \A new \in successors(popped) :
                         ~exceeds(new.energy, solutions') =>
                             \/ \E k \in 1..Len(stack') : map_eq(stack'[k], new)
                             \/ <<str_rep(new), new.energy>> \in visited'
                             \/ \E s \in solutions' : map_eq(s, new)]_vars

\* a solution is recorded, the Map just expanded has successors above its
\* energy that were not pushed, and a Map at exactly that energy is kept
C23_Witness ==
    /\ pc = "loop"
    /\ solutions # {}
    /\ \E new \in successors(map) :
           /\ exceeds(new.energy, solutions)
           /\ ~stack_contains(stack, new)
    /\ \E k \in 1..Len(stack) :
           \A s \in min_by_energy(solutions) : stack[k].energy = s.energy

(* C24: Maps with the same placement and different energy are distinct     *)
(* members of the visited set, and the search never expands a Map whose    *)
(* placement has already been expanded with a strictly lower energy.       *)
C24_PrefersLowerEnergy ==
    /\ [](\A v, w \in visited : (v[1] = w[1] /\ v[2] # w[2]) => v # w)
    /\ [][\A k \in visited' \ visited :
              ~\E v \in visited : v[1] = k[1] /\ v[2] < k[2]]_vars

(* C25: best_solution_imperative called on a Map that is already complete *)
(* returns that same Map (same placement, same energy) with zero search    *)
(* iterations: nothing is pushed to the frontier and no Map is expanded.   *)
C25_CompleteReturnsItself ==
    all_in_own_burrow(self) =>
        /\ pc \in {"start", "done"}
        /\ stack = <<>>
        /\ visited = {}
        /\ solutions = {}
        /\ pc = "done" =>
               /\ result = Some(self)
               /\ map_eq(unwrap(result), self)

\* the call on a complete Map that still has possible moves has returned
C25_Witness ==
    /\ pc = "done"
    /\ all_in_own_burrow(self)
    /\ possible_moves(self) # <<>>
    /\ result = Some(self)

---------------------------------------------------------------------------
(* do_move and move_to: what a move changes *)

\* the index of the first occupant of m at the position
first_at(m, position) ==
    CHOOSE k \in 1..Len(m.pods) :
        /\ m.pods[k].position = position
        /\ \A l \in 1..(k - 1) : m.pods[l].position # position

(* C26: do_move leaves the Map it is called on unchanged and returns a new *)
(* Map that differs from it only in the energy counter and in the position *)
(* and has-left-home flag of the one occupant found at the move's source   *)
(* position; the number of occupants, every occupant's type, and the       *)
(* position and flag of every other occupant are unchanged.                *)
C26_DoMoveFrame ==
    /\ [](pc = "done" =>
            LET new == unwrap(result)
                src == first_at(self, arg[1].position)
            IN  /\ DOMAIN new = {"pods", "energy"}
                /\ Len(new.pods) = Len(self.pods)
                /\ \A k \in 1..Len(self.pods) :
                       /\ new.pods[k].type = self.pods[k].type
                       /\ k # src => new.pods[k] = self.pods[k]
                /\ new.pods[src].position = arg[2])
    /\ [][self' = self]_vars

\* the second of two occupants was moved: the returned Map differs in that
\* occupant's position and flag and in the energy
C26_Witness ==
    /\ pc = "done"
    /\ Len(self.pods) = 2
    /\ arg[1].position = self.pods[2].position
    /\ unwrap(result).pods[2].position # self.pods[2].position
    /\ unwrap(result).pods[2].left_home
    /\ unwrap(result).energy > self.energy

(* C27: Amphipod::move_to sets the has-left-home flag to true when the new *)
(* position is not in the occupant's destination burrow and otherwise      *)
(* leaves the flag as it was; over any sequence of moves the flag never    *)
(* returns from true to false, and an occupant that moves straight from    *)
(* another burrow into its destination burrow keeps the flag false.        *)
C27_LeftHomeFlag ==
    [][moved' # moved =>
          LET mv == moved'[Len(moved')]
              k == first_at(map, mv[2])
              o == map.pods[k]
              n == map'.pods[k]
              home == /\ mv[3][1] = "Burrow"
                      /\ mv[3][2] = burrow_numbered_by(o.type)
          IN  /\ ~home => n.left_home
              /\ home => n.left_home = o.left_home
              /\ \A j \in 1..Len(map.pods) :
                     map.pods[j].left_home => map'.pods[j].left_home
              /\ (o.position[1] = "Burrow" /\ ~o.left_home /\ home)
                     => ~n.left_home]_vars

\* the type-D occupant has moved straight from burrow 3 into its own burrow
\* and is not marked, the type-C occupant has stepped into the hallway and
\* is marked
C27_Witness ==
    /\ Len(moved) = 2
    /\ moved[1] = <<TypeD, Burrow(3, 1), Burrow(4, 1)>>
    /\ moved[2] = <<TypeC, Burrow(1, 1), Hallway(3)>>
    /\ ~map.pods[2].left_home
    /\ map.pods[1].left_home

---------------------------------------------------------------------------
(* The search run to its return, and the chains of moves it is built on:  *)
(* possible_moves applied with do_move from the same initial Maps, with   *)
(* the number of moves of each occupant counted in moved                  *)

\* the moves of possible_moves as a set
move_set(m) ==
    LET moves == possible_moves(m)
    IN  {moves[k] : k \in 1..Len(moves)}

InitChain ==
    /\ map \in {m \in StartMaps({FALSE}) : Distinct(m)}
                \cup {DoubleMap, StuckMap}
    /\ self = None
    /\ moved = [k \in 1..Len(map.pods) |-> 0]
    /\ pc = "chain"
    /\ Idle

\* one move of possible_moves is applied with do_move
ChainMove ==
    /\ pc = "chain"
    /\ \E mv \in move_set(map) :
           /\ map' = do_move(map, mv)
           /\ moved' = [moved EXCEPT ![find_pod(map, mv[1].position)] = @ + 1]
    /\ UNCHANGED <<self, arg, stack, visited, solutions, lowest_energy,
                   pc, result>>

InitTermination == Init \/ InitChain

NextTermination == Next \/ ChainMove

\* the call is one sequential thread: it keeps taking steps until it has
\* returned.  This is weak fairness of Next, WF_vars(Next), written with
\* ENABLED <<Next>>_vars spelled out: a step of Next can be taken exactly
\* when the call is started and has not returned
SpecTermination ==
    /\ InitTermination
    /\ [][NextTermination]_vars
    /\ ([]<>(pc \notin {"start", "loop"}) \/ []<><<Next>>_vars)

(* C28: best_solution_imperative terminates on every initial Map with      *)
(* distinct positions: the call, once started, returns; every chain of     *)
(* moves generated by possible_moves/do_move is finite, because each move  *)
(* strictly increases the energy and no occupant moves more than three     *)
(* times.                                                                  *)
C28_SearchTerminates ==
    /\ (pc = "start") ~> (pc = "done")
    /\ [](pc = "chain" => \A k \in 1..Len(moved) : moved[k] <= 3)
    /\ [][pc = "chain" => map'.energy > map.energy]_vars
    /\ [][(pc = "loop" /\ pc' = "loop") =>
             \A k \in 1..(Len(stack') - Len(stack) + 1) :
                 stack'[k].energy > map'.energy]_vars

\* the search has run through more than twenty Maps and has returned
C28_Witness ==
    /\ pc = "done"
    /\ Cardinality(visited) > 20
    /\ stack = <<>>

----------------------------------------------------------------------------
(* Two Maps reached from the same initial Map, as the search compares them *)
(* (lines 499-512): map and arg each go through moves of possible_moves    *)
(* applied by do_move, starting from self                                   *)

\* the initial Maps of one amphipod, and the Map of tests::test_solving_double
InitDedup ==
    /\ self \in {m \in StartMaps({FALSE}) : Len(m.pods) = 1} \cup {DoubleMap}
    /\ map = self
    /\ arg = self
    /\ moved = <<>>
    /\ pc = "dedup"
    /\ stack = <<>>
    /\ visited = {}
    /\ solutions = {}
    /\ lowest_energy = usize_max_value
    /\ result = None

\* the first Map makes one more move
MoveFirst ==
    /\ pc = "dedup"
    /\ \E new \in successors(map) : map' = new
    /\ UNCHANGED <<self, arg, moved, stack, visited, solutions, lowest_energy,
                   pc, result>>

\* the second Map makes one more move
MoveSecond ==
    /\ pc = "dedup"
    /\ \E new \in successors(arg) : arg' = new
    /\ UNCHANGED <<self, map, moved, stack, visited, solutions, lowest_energy,
                   pc, result>>

NextDedup == MoveFirst \/ MoveSecond

SpecDedup == InitDedup /\ [][NextDedup]_vars

\* the moves of possible_moves as (source position, destination) pairs
move_pairs(m) == {<<mv[1].position, mv[2]>> : mv \in move_set(m)}

(* C29: Map equality is a sound key for dropping a Map as already visited,  *)
(* queued or solved: two Maps reached from the same initial Map that       *)
(* compare equal have the same (source position, destination) moves.       *)
C29_EqualMapsSameMoves ==
    (pc = "dedup" /\ map_eq(map, arg)) => move_pairs(map) = move_pairs(arg)

----------------------------------------------------------------------------
(* Map::best_solution, the recursive search, next to the worklist search   *)

RECURSIVE best_solution(_)
RECURSIVE min_solution(_, _, _)
RECURSIVE min_solution_last(_, _, _)

\* the fold of min_solution when the last solution found replaces the best
min_solution_last(m, moves, best) ==
    IF moves = <<>> THEN best
    ELSE LET found == best_solution(do_move(m, Head(moves)))
         IN  min_solution_last(m, Tail(moves),
                               IF found # None THEN found ELSE best)

\* lines 403-410: filter_map over the moves and min_by on the energy, which
\* keeps the first of the solutions of least energy
min_solution(m, moves, best) ==
    IF moves = <<>> THEN best
    ELSE LET found == best_solution(do_move(m, Head(moves)))
         IN  min_solution(m, Tail(moves),
                          IF found # None
                             /\ (best = None \/ found[1].energy < best[1].energy)
                          THEN found ELSE best)

\* lines 377-411
best_solution(m) ==
    IF complete(m) THEN Some(m)
    ELSE LET moves == possible_moves(m)
         IN  IF moves = <<>> THEN None
             ELSE min_solution(m, moves, None)

\* the initial Maps of one amphipod, of two amphipods that both start in the
\* hallway, and the Maps of three amphipods
InitAgree ==
    /\ Init
    /\ \/ Len(self.pods) # 2
       \/ \A k \in 1..Len(self.pods) : IsHallway(self.pods[k].position)
       \/ self = DoubleMap

SpecAgree == InitAgree /\ [][Next]_vars

(* C30: on every initial Map with distinct positions the recursive          *)
(* best_solution and best_solution_imperative agree: both return None, or  *)
(* both return a complete Map and the two Maps have the same energy.       *)
C30_SearchesAgree ==
    pc = "done" =>
        LET recursive == best_solution(self)
        IN  \/ result = None /\ recursive = None
            \/ /\ result # None
               /\ recursive # None
               /\ complete(result[1])
               /\ complete(recursive[1])
               /\ result[1].energy = recursive[1].energy

\* the loop has returned the cheaper of two solutions, and the recursion
\* had more than one move to choose from at the start
C30_Witness ==
    /\ pc = "done"
    /\ Cardinality(solutions) >= 2
    /\ \E s \in solutions : s.energy > result[1].energy
    /\ Len(possible_moves(self)) > 1
    /\ best_solution(self) = Some(result[1])

====
